---- MODULE Spec2Model ----
(***************************************************************************)
(* The Mond Clock widget script (wallpapers/mond_clock/script.js).         *)
(*                                                                         *)
(* The script renders the local wall-clock time into three DOM targets     *)
(* (day, date, time), once at load, once when an alignment timeout fires,  *)
(* and then on every tick of a 60000 ms interval timer.                    *)
(*                                                                         *)
(* Time is counted in milliseconds.  An instant is a record                *)
(* [day |-> days since 1970-01-01, ms |-> millisecond of that day] of      *)
(* local time.  A string is a sequence of one-character strings.           *)
(***************************************************************************)
EXTENDS Integers, Sequences, FiniteSets

VARIABLES
    start,              \* the instant at which the script is loaded
    age,                \* ms elapsed since then (stops counting at Horizon)
    task,               \* what the single JS thread runs: none/script/timeout/interval
    pc,                 \* the line of script.js about to execute
    ret,                \* the line to continue at when updateClock returns
    rnow,               \* updateClock's local `now` (line 2)
    gnow,               \* the top-level `now` (line 28)
    msUntilNextMinute,  \* the top-level constant of line 29
    text,               \* textContent of the three targets
    present,            \* the targets getElementById finds
    timeout,            \* the timer of setTimeout (line 31)
    interval,           \* the timer of setInterval (line 33)
    spent,              \* ms elapsed while the current task has been running
    active,             \* updateClock invocations in progress
    reads,              \* clock reads made by the latest updateClock invocation
    calls,              \* updateClock invocations begun (counted up to MaxCount)
    fired,              \* timer callbacks dispatched (counted up to MaxCount)
    created,            \* setInterval calls made (counted up to MaxCount)
    threw               \* an uncaught TypeError ended a task

vars == << start, age, task, pc, ret, rnow, gnow, msUntilNextMinute, text,
           present, timeout, interval, spent, active, reads, calls, fired,
           created, threw >>

-----------------------------------------------------------------------------
(* Bounds of the model.                                                    *)

MaxExec == 1        \* ms that may elapse while one task executes
MaxLate == 1        \* ms by which a due timer callback may be dispatched late
MaxMinutes == 2     \* minutes of wall-clock time the model follows
MaxCount == 4       \* the counters calls, fired and created stop counting here
StartWindow == 2    \* load instants this close (ms) to a minute boundary
SampleStride == 9973 \* plus one load instant every SampleStride ms of a minute
MaxMissing == 1     \* targets that may be absent from the page at once

(* Program constants.                                                      *)

IntervalMs == 60000

MsPerDay == 24 * 3600000
Horizon == MaxMinutes * IntervalMs

Min(a, b) == IF a < b THEN a ELSE b

Nil == [day |-> -1, ms |-> -1]
Targets == {"day", "date", "time"}

-----------------------------------------------------------------------------
(* The Date object: the getters used by the script, over local time.       *)

Plus(t, d) ==
    [day |-> t.day + ((t.ms + d) \div MsPerDay), ms |-> (t.ms + d) % MsPerDay]

Diff(a, b) == (a.day - b.day) * MsPerDay + (a.ms - b.ms)

getMilliseconds(t) == t.ms % 1000
getSeconds(t) == (t.ms \div 1000) % 60
getMinutes(t) == (t.ms \div 60000) % 60
getHours(t) == t.ms \div 3600000
getDay(t) == (t.day + 4) % 7

DayFromYear(y) ==
    365 * (y - 1970) + ((y - 1969) \div 4) - ((y - 1901) \div 100)
        + ((y - 1601) \div 400)

InLeapYear(y) == (y % 4 = 0) /\ ((y % 100 # 0) \/ (y % 400 = 0))

getFullYear(t) ==
    CHOOSE y \in (1970 + (t.day \div 366)) .. (1970 + (t.day \div 365)) :
        DayFromYear(y) <= t.day /\ t.day < DayFromYear(y + 1)

DayWithinYear(t) == t.day - DayFromYear(getFullYear(t))

\* First day-within-year of each month, January-first, and of the next year.
MonthStarts(leap) ==
    << 0, 31, 59 + leap, 90 + leap, 120 + leap, 151 + leap, 181 + leap,
       212 + leap, 243 + leap, 273 + leap, 304 + leap, 334 + leap, 365 + leap >>

LeapDays(t) == IF InLeapYear(getFullYear(t)) THEN 1 ELSE 0

getMonth(t) ==
    CHOOSE k \in 0..11 :
        /\ MonthStarts(LeapDays(t))[k + 1] <= DayWithinYear(t)
        /\ DayWithinYear(t) < MonthStarts(LeapDays(t))[k + 2]

getDate(t) == DayWithinYear(t) - MonthStarts(LeapDays(t))[getMonth(t) + 1] + 1

-----------------------------------------------------------------------------
(* String conversion and the three strings updateClock builds.             *)

Digit(d) == << "0", "1", "2", "3", "4", "5", "6", "7", "8", "9" >>[d + 1]

RECURSIVE ToString(_)
ToString(n) ==
    IF n < 10 THEN << Digit(n) >> ELSE ToString(n \div 10) \o << Digit(n % 10) >>

days ==
    << <<"S", "u", "n", "d", "a", "y">>,
       <<"M", "o", "n", "d", "a", "y">>,
       <<"T", "u", "e", "s", "d", "a", "y">>,
       <<"W", "e", "d", "n", "e", "s", "d", "a", "y">>,
       <<"T", "h", "u", "r", "s", "d", "a", "y">>,
       <<"F", "r", "i", "d", "a", "y">>,
       <<"S", "a", "t", "u", "r", "d", "a", "y">> >>

months ==
    << <<"J", "a", "n", "u", "a", "r", "y">>,
       <<"F", "e", "b", "r", "u", "a", "r", "y">>,
       <<"M", "a", "r", "c", "h">>,
       <<"A", "p", "r", "i", "l">>,
       <<"M", "a", "y">>,
       <<"J", "u", "n", "e">>,
       <<"J", "u", "l", "y">>,
       <<"A", "u", "g", "u", "s", "t">>,
       <<"S", "e", "p", "t", "e", "m", "b", "e", "r">>,
       <<"O", "c", "t", "o", "b", "e", "r">>,
       <<"N", "o", "v", "e", "m", "b", "e", "r">>,
       <<"D", "e", "c", "e", "m", "b", "e", "r">> >>

dayStr(now) == days[getDay(now) + 1]

dateStr_PaddedDay(now) ==
    months[getMonth(now) + 1] \o << " " >>
        \o (IF getDate(now) < 10 THEN << "0" >> ELSE << >>)
        \o ToString(getDate(now)) \o << ",", " " >> \o ToString(getFullYear(now))

dateStr(now) ==
    months[getMonth(now) + 1] \o << " " >> \o ToString(getDate(now))
        \o << ",", " " >> \o ToString(getFullYear(now))

ampm(hours) == IF hours >= 12 THEN << "P", "M" >> ELSE << "A", "M" >>

hours12_NoTwelve(hours) == hours % 12

hours12(hours) == IF hours % 12 # 0 THEN hours % 12 ELSE 12

minutesStr(minutes) ==
    IF minutes < 10 THEN << "0" >> \o ToString(minutes) ELSE ToString(minutes)

timeStr(now) ==
    << "-", " " >> \o ToString(hours12(getHours(now))) \o << ":" >>
        \o minutesStr(getMinutes(now)) \o << " " >> \o ampm(getHours(now))
        \o << " ", "-" >>

UntilNextMinute_Early(now) == (59 - getSeconds(now)) * 1000 - getMilliseconds(now)

UntilNextMinute_Wrapped(now) ==
    ((60 - getSeconds(now)) * 1000 - getMilliseconds(now)) % 60000

UntilNextMinute(now) == (60 - getSeconds(now)) * 1000 - getMilliseconds(now)

-----------------------------------------------------------------------------
(* The clock and the timers.                                               *)

Saturated == age >= Horizon

Clock == Plus(start, age)

Unarmed == [armed |-> FALSE, remaining |-> 0]

Inc(n) == Min(n + 1, MaxCount)

\* d ms pass: the clock advances and every armed timer runs down.
Pass(d) ==
    /\ age' = Min(age + d, Horizon)
    /\ timeout' = IF timeout.armed
                  THEN [timeout EXCEPT !.remaining = @ - d] ELSE timeout
    /\ interval' = IF interval.armed
                   THEN [interval EXCEPT !.remaining = @ - d] ELSE interval

Remaining ==
    {timeout.remaining : x \in {y \in {0} : timeout.armed}}
        \cup {interval.remaining : x \in {y \in {0} : interval.armed}}

SomeDue == \E r \in Remaining : r <= 0

ToBoundary == 60000 - (Clock.ms % 60000)

\* While nothing runs, time passes up to the next minute boundary (as long
\* as the clock is followed) or up to the instant the next timer is due; a
\* due timer waits at most MaxLate ms.
IdleSteps ==
    IF SomeDue
    THEN {d \in {1} : \A r \in Remaining : r - d >= -MaxLate}
    ELSE IF Remaining = {}
         THEN {d \in {ToBoundary} : ~Saturated}
         ELSE {d \in {x \in {ToBoundary} : ~Saturated} \cup Remaining :
                  \A r \in Remaining : d <= r}

ElapseIdle ==
    /\ task = "none"
    /\ \E d \in IdleSteps : Pass(d)
    /\ UNCHANGED << start, task, pc, ret, rnow, gnow, msUntilNextMinute, text,
                    present, spent, active, reads, calls, fired, created, threw >>

\* While a task runs, at most MaxExec ms pass before it ends.
ElapseRun ==
    /\ task # "none"
    /\ spent < MaxExec
    /\ Pass(1)
    /\ spent' = spent + 1
    /\ UNCHANGED << start, task, pc, ret, rnow, gnow, msUntilNextMinute, text,
                    present, active, reads, calls, fired, created, threw >>

-----------------------------------------------------------------------------
(* updateClock, lines 1-22.                                                *)

\* A call of updateClock that continues at line `back` when it returns.
Enter(back) ==
    /\ pc' = "L2"
    /\ ret' = back
    /\ active' = active + 1
    /\ calls' = Inc(calls)
    /\ reads' = 0

ReadClock ==
    /\ task # "none" /\ pc = "L2"
    /\ rnow' = Clock
    /\ reads' = reads + 1
    /\ pc' = "L6"
    /\ UNCHANGED << start, age, task, ret, gnow, msUntilNextMinute, text,
                    present, timeout, interval, spent, active, calls, fired,
                    created, threw >>

Write(line, target, str, next) ==
    /\ task # "none" /\ pc = line
    /\ target \in present
    /\ text' = [text EXCEPT ![target] = str]
    /\ pc' = next
    /\ UNCHANGED << start, age, task, ret, rnow, gnow, msUntilNextMinute,
                    present, timeout, interval, spent, active, reads, calls,
                    fired, created, threw >>

WriteDay == Write("L6", "day", dayStr(rnow), "L11")

WriteDate == Write("L11", "date", dateStr(rnow), "L21")

WriteTime_RereadsClock == Write("L21", "time", timeStr(Clock), "L22")

WriteTime == Write("L21", "time", timeStr(rnow), "L22")

Return ==
    /\ task # "none" /\ pc = "L22"
    /\ active' = active - 1
    /\ IF ret = "end"
       THEN task' = "none" /\ pc' = "idle"
       ELSE task' = task /\ pc' = ret
    /\ UNCHANGED << start, age, ret, rnow, gnow, msUntilNextMinute, text,
                    present, timeout, interval, spent, reads, calls, fired,
                    created, threw >>

\* getElementById returns null for an absent target: the assignment to
\* its textContent throws a TypeError nothing catches, which ends the task.
Throw(line, target) ==
    /\ task # "none" /\ pc = line
    /\ target \notin present
    /\ threw' = TRUE
    /\ task' = "none"
    /\ pc' = "idle"
    /\ active' = 0
    /\ UNCHANGED << start, age, ret, rnow, gnow, msUntilNextMinute, text,
                    present, timeout, interval, spent, reads, calls, fired,
                    created >>

ThrowDay == Throw("L6", "day")

ThrowDate == Throw("L11", "date")

ThrowTime == Throw("L21", "time")

-----------------------------------------------------------------------------
(* The top-level script, lines 24-34.                                      *)

ScriptCall_Skipped ==
    /\ task = "script" /\ pc = "L25"
    /\ pc' = "L28"
    /\ UNCHANGED << start, age, task, ret, rnow, gnow, msUntilNextMinute, text,
                    present, timeout, interval, spent, active, reads, calls,
                    fired, created, threw >>

ScriptCall ==
    /\ task = "script" /\ pc = "L25"
    /\ Enter("L28")
    /\ UNCHANGED << start, age, task, rnow, gnow, msUntilNextMinute, text,
                    present, timeout, interval, spent, fired, created, threw >>

ScriptNow ==
    /\ task = "script" /\ pc = "L28"
    /\ gnow' = Clock
    /\ pc' = "L29"
    /\ UNCHANGED << start, age, task, ret, rnow, msUntilNextMinute, text,
                    present, timeout, interval, spent, active, reads, calls,
                    fired, created, threw >>

ScriptDelay ==
    /\ task = "script" /\ pc = "L29"
    /\ msUntilNextMinute' = UntilNextMinute(gnow)
    /\ pc' = "L31"
    /\ UNCHANGED << start, age, task, ret, rnow, gnow, text, present, timeout,
                    interval, spent, active, reads, calls, fired, created,
                    threw >>

ScriptSetTimeout ==
    /\ task = "script" /\ pc = "L31"
    /\ timeout' = [armed |-> TRUE, remaining |-> msUntilNextMinute]
    /\ task' = "none"
    /\ pc' = "idle"
    /\ UNCHANGED << start, age, ret, rnow, gnow, msUntilNextMinute, text,
                    present, interval, spent, active, reads, calls, fired,
                    created, threw >>

-----------------------------------------------------------------------------
(* The event loop and the two timer callbacks, lines 31-34.                *)

\* A one-shot timer (setTimeout) is spent when its callback is dispatched.
FireTimeout_Repeating ==
    /\ task = "none"
    /\ timeout.armed /\ timeout.remaining <= 0
    /\ timeout' = [armed |-> TRUE, remaining |-> msUntilNextMinute]
    /\ task' = "timeout"
    /\ pc' = "L32"
    /\ spent' = 0
    /\ fired' = Inc(fired)
    /\ UNCHANGED << start, age, ret, rnow, gnow, msUntilNextMinute, text,
                    present, interval, active, reads, calls, created, threw >>

FireTimeout ==
    /\ task = "none"
    /\ timeout.armed /\ timeout.remaining <= 0
    /\ timeout' = Unarmed
    /\ task' = "timeout"
    /\ pc' = "L32"
    /\ spent' = 0
    /\ fired' = Inc(fired)
    /\ UNCHANGED << start, age, ret, rnow, gnow, msUntilNextMinute, text,
                    present, interval, active, reads, calls, created, threw >>

CallbackCall ==
    /\ task = "timeout" /\ pc = "L32"
    /\ Enter("L33")
    /\ UNCHANGED << start, age, task, rnow, gnow, msUntilNextMinute, text,
                    present, timeout, interval, spent, fired, created, threw >>

CallbackSetInterval ==
    /\ task = "timeout" /\ pc = "L33"
    /\ interval' = [armed |-> TRUE, remaining |-> IntervalMs]
    /\ created' = Inc(created)
    /\ task' = "none"
    /\ pc' = "idle"
    /\ UNCHANGED << start, age, ret, rnow, gnow, msUntilNextMinute, text,
                    present, timeout, spent, active, reads, calls, fired,
                    threw >>

\* The callback of the interval is updateClock itself.  The timer is
\* re-armed for another period, counted either from the dispatch or from
\* the instant the tick was due (a host may or may not make up for a late
\* tick).
FireInterval_OneShot ==
    /\ task = "none"
    /\ interval.armed /\ interval.remaining <= 0
    /\ interval' = Unarmed
    /\ task' = "interval"
    /\ Enter("end")
    /\ spent' = 0
    /\ fired' = Inc(fired)
    /\ UNCHANGED << start, age, rnow, gnow, msUntilNextMinute, text, present,
                    timeout, created, threw >>

FireInterval ==
    /\ task = "none"
    /\ interval.armed /\ interval.remaining <= 0
    /\ \E r \in {IntervalMs, IntervalMs + interval.remaining} :
           interval' = [armed |-> TRUE, remaining |-> r]
    /\ task' = "interval"
    /\ Enter("end")
    /\ spent' = 0
    /\ fired' = Inc(fired)
    /\ UNCHANGED << start, age, rnow, gnow, msUntilNextMinute, text, present,
                    timeout, created, threw >>

\* The page gains or loses a target between two tasks.
DomChange ==
    /\ task = "none"
    /\ \E t \in Targets :
           present' = IF t \in present THEN present \ {t} ELSE present \cup {t}
    /\ UNCHANGED << start, age, task, pc, ret, rnow, gnow, msUntilNextMinute,
                    text, timeout, interval, spent, active, reads, calls,
                    fired, created, threw >>

-----------------------------------------------------------------------------
(* Specifications.                                                         *)

StartMinutes ==
    { [day |-> 20088, ms |-> 1439 * 60000],     \* 2024-12-31 23:59
      [day |-> 19789, ms |-> 5 * 60000],        \* 2024-03-07 00:05
      [day |-> 19782, ms |-> 719 * 60000] }     \* 2024-02-29 11:59

StartOffsets ==
    (0 .. StartWindow) \cup ((60000 - StartWindow) .. 59999)
        \cup {k * SampleStride : k \in 0 .. (59999 \div SampleStride)}

Loaded(t, found) ==
    /\ start = t
    /\ age = 0
    /\ task = "script"
    /\ pc = "L25"
    /\ ret = "end"
    /\ rnow = Nil
    /\ gnow = Nil
    /\ msUntilNextMinute = -1
    /\ text = [x \in Targets |-> << >>]
    /\ present = found
    /\ timeout = Unarmed
    /\ interval = Unarmed
    /\ spent = 0
    /\ active = 0
    /\ reads = 0
    /\ calls = 0
    /\ fired = 0
    /\ created = 0
    /\ threw = FALSE

Init == \E m \in StartMinutes, x \in StartOffsets : Loaded(Plus(m, x), Targets)

Run ==
    \/ ScriptCall
    \/ ReadClock
    \/ WriteDay
    \/ WriteDate
    \/ WriteTime
    \/ Return
    \/ ScriptNow
    \/ ScriptDelay
    \/ ScriptSetTimeout
    \/ CallbackCall
    \/ CallbackSetInterval

Dispatch == FireTimeout \/ FireInterval

Next == Run \/ Dispatch \/ ElapseIdle \/ ElapseRun

Spec == Init /\ [][Next]_vars

\* The engine does not halt: it runs a task to its end, dispatches a due
\* callback, and time passes while nothing runs.  (Time need not pass
\* while a task runs.)
Progress == Run \/ Dispatch \/ ElapseIdle

\* Liveness is checked from the load instants around the turn of the
\* year 2024 and from one instant in the middle of a minute.
LiveOffsets ==
    (0 .. StartWindow) \cup ((60000 - StartWindow) .. 59999) \cup {SampleStride}

InitLive ==
    \E x \in LiveOffsets :
        Loaded(Plus([day |-> 20088, ms |-> 1439 * 60000], x), Targets)

LiveSpec == InitLive /\ [][Next]_vars /\ WF_vars(Progress)

\* The page may lack targets, and may gain or lose one between two tasks.
InitMissing ==
    \E m \in StartMinutes, x \in StartOffsets :
        \E found \in SUBSET Targets :
            /\ Cardinality(Targets \ found) <= MaxMissing
            /\ Loaded(Plus(m, x), found)

NextMissing == Next \/ ThrowDay \/ ThrowDate \/ ThrowTime \/ DomChange

SpecMissing == InitMissing /\ [][NextMissing]_vars

\* The delay computation alone, for every instant of one minute: the
\* script has returned from its first updateClock, which took no time.
DelayMinute == [day |-> 19789, ms |-> 5 * 60000]

Rendered(t) ==
    [x \in Targets |->
        IF x = "day" THEN dayStr(t) ELSE IF x = "date" THEN dateStr(t) ELSE timeStr(t)]

InitDelay ==
    \E x \in 0 .. 59999 :
        /\ start = Plus(DelayMinute, x)
        /\ age = 0
        /\ task = "script"
        /\ pc = "L28"
        /\ ret = "L28"
        /\ rnow = start
        /\ gnow = Nil
        /\ msUntilNextMinute = -1
        /\ text = Rendered(start)
        /\ present = Targets
        /\ timeout = Unarmed
        /\ interval = Unarmed
        /\ spent = 0
        /\ active = 0
        /\ reads = 1
        /\ calls = 1
        /\ fired = 0
        /\ created = 0
        /\ threw = FALSE

NextDelay == ScriptNow \/ ScriptDelay \/ ScriptSetTimeout

SpecDelay == InitDelay /\ [][NextDelay]_vars

\* The first updateClock alone, over every minute of two days and over
\* every day of 2023-01-01 .. 2025-01-31 and the turns of 2000 and 2100.
FormatDays ==
    (19358 .. 20119) \cup {10956, 10957, 11016, 11017, 47540, 47541}

FormatInstants ==
    {[day |-> d, ms |-> m * 60000] : d \in FormatDays, m \in {5, 719}}
        \cup {[day |-> d, ms |-> m * 60000] : d \in {19789, 20088}, m \in 0 .. 1439}

InitFormat == \E t \in FormatInstants : Loaded(t, Targets)

NextFormat ==
    \/ ScriptCall
    \/ ReadClock
    \/ WriteDay
    \/ WriteDate
    \/ WriteTime
    \/ Return

SpecFormat == InitFormat /\ [][NextFormat]_vars

-----------------------------------------------------------------------------
(* Properties.                                                             *)

Running == task # "none"

\* The latest updateClock invocation was made by a timer callback, has read
\* the clock, and the clock was still followed when it did.
TimerRender ==
    /\ \/ task = "interval" /\ pc \in {"L6", "L11", "L21", "L22"}
       \/ task = "timeout" /\ pc \in {"L6", "L11", "L21", "L22", "L33"}
    /\ Diff(rnow, start) < Horizon

C2_RenderBeforeTimers ==
    /\ (timeout.armed \/ interval.armed) =>
           /\ calls >= 1
           /\ text["day"] \in {days[i] : i \in 1 .. 7}
           /\ text["date"] # << >>
           /\ text["time"] # << >> /\ Head(text["time"]) = "-"
    /\ (task = "script" /\ pc \in {"L28", "L29", "L31"}) =>
           /\ calls = 1 /\ active = 0
           /\ ~timeout.armed /\ ~interval.armed
           /\ \A t \in Targets : text[t] # << >>

C2_Witness == task = "none" /\ timeout.armed /\ timeout.remaining > 0

\* C3 as claimed: every timer-driven updateClock reads the clock at an
\* instant whose seconds and milliseconds are 0.
C3_OnBoundary ==
    TimerRender => getSeconds(rnow) = 0 /\ getMilliseconds(rnow) = 0

\* C3 as amended: a timer-driven updateClock never reads the clock before a
\* whole-minute boundary: the one of the alignment timeout not before the
\* first boundary after the instant of line 28, and the one of the k-th
\* tick not before k minutes after that boundary.
C3_NotBeforeBoundary ==
    (TimerRender /\ fired < MaxCount) =>
        Diff(rnow, gnow) >= (60000 - (gnow.ms % 60000)) + (fired - 1) * 60000

C3_Witness ==
    /\ TimerRender /\ fired < MaxCount /\ task = "interval"
    /\ rnow.ms % 60000 # 0

\* C4: the delay of line 29 is (60 - seconds) * 1000 - milliseconds; it
\* lies in 1..60000, is 60000 exactly at seconds 0 and milliseconds 0,
\* is 500 at seconds 59 and milliseconds 500, and ends on a minute
\* boundary.
C4_AlignmentDelay ==
    (msUntilNextMinute # -1) =>
        LET s == (gnow.ms \div 1000) % 60
            m == gnow.ms % 1000
        IN  /\ msUntilNextMinute = (60 - s) * 1000 - m
            /\ msUntilNextMinute \in 1 .. 60000
            /\ (msUntilNextMinute = 60000) <=> (s = 0 /\ m = 0)
            /\ (s = 59 /\ m = 500) => msUntilNextMinute = 500
            /\ (gnow.ms + msUntilNextMinute) % 60000 = 0

C4_Witness == pc = "L31" /\ msUntilNextMinute = 60000

\* The decimal digits of n, in exactly `width` characters.
RECURSIVE Decimal(_, _)
Decimal(n, width) ==
    IF width = 0 THEN << >>
    ELSE Decimal(n \div 10, width - 1) \o << Digit(n % 10) >>

\* C5: the time target holds "- H:MM T -", H the hour on the 12-hour dial
\* (1..12, 12 for hours 0 and 12), MM the minute in two digits, T AM before
\* noon and PM from noon on.
C5_TimeLabel ==
    (task = "script" /\ pc = "L22") =>
        LET h == getHours(rnow)
            m == getMinutes(rnow)
            H == IF h % 12 = 0 THEN 12 ELSE h % 12
            T == IF h >= 12 THEN << "P", "M" >> ELSE << "A", "M" >>
        IN  /\ H \in 1 .. 12
            /\ text["time"] =
                   << "-", " " >> \o Decimal(H, IF H < 10 THEN 1 ELSE 2) \o << ":" >>
                       \o Decimal(m, 2) \o << " " >> \o T \o << " ", "-" >>
            /\ (h = 0 /\ m = 5) =>
                   text["time"] = <<"-", " ", "1", "2", ":", "0", "5", " ", "A", "M", " ", "-">>
            /\ (h = 12 /\ m = 0) =>
                   text["time"] = <<"-", " ", "1", "2", ":", "0", "0", " ", "P", "M", " ", "-">>
            /\ (h = 13 /\ m = 45) =>
                   text["time"] = <<"-", " ", "1", ":", "4", "5", " ", "P", "M", " ", "-">>
            /\ (h = 23 /\ m = 59) =>
                   text["time"] = <<"-", " ", "1", "1", ":", "5", "9", " ", "P", "M", " ", "-">>

C5_Witness ==
    task = "script" /\ pc = "L22" /\ getHours(rnow) = 0 /\ getMinutes(rnow) = 5

\* The day of the week of a calendar date (month 1..12), 0 = Sunday.
Weekday(y, month, n) ==
    LET t == << 0, 3, 2, 5, 0, 3, 5, 1, 4, 6, 2, 4 >>
        yy == IF month < 3 THEN y - 1 ELSE y
    IN  (yy + (yy \div 4) - (yy \div 100) + (yy \div 400) + t[month] + n) % 7

\* C6: the day target holds the name, in the Sunday-first table, of the
\* instant's day of the week, and the date target holds "<month name> n, y"
\* with n without a leading zero; Thursday 2024-03-07 gives "Thursday" and
\* "March 7, 2024".
C6_DayAndDateLabel ==
    (task = "script" /\ pc \in {"L21", "L22"}) =>
        LET d == getDay(rnow)
            k == getMonth(rnow)
            n == getDate(rnow)
            y == getFullYear(rnow)
        IN  /\ d \in 0 .. 6 /\ k \in 0 .. 11 /\ n \in 1 .. 31
            /\ d = Weekday(y, k + 1, n)
            /\ text["day"] = days[d + 1]
            /\ text["date"] =
                   months[k + 1] \o << " " >> \o Decimal(n, IF n < 10 THEN 1 ELSE 2)
                       \o << ",", " " >> \o Decimal(y, 4)
            /\ (rnow.day = 19789) =>
                   /\ text["day"] = <<"T", "h", "u", "r", "s", "d", "a", "y">>
                   /\ text["date"] =
                          <<"M", "a", "r", "c", "h", " ", "7", ",", " ", "2", "0", "2", "4">>
            /\ (rnow.day = 20088) =>
                   /\ text["day"] = <<"T", "u", "e", "s", "d", "a", "y">>
                   /\ text["date"] =
                          <<"D", "e", "c", "e", "m", "b", "e", "r", " ", "3", "1", ",",
                            " ", "2", "0", "2", "4">>
            /\ (rnow.day = 19358) => text["day"] = <<"S", "u", "n", "d", "a", "y">>

C6_Witness == task = "script" /\ pc = "L22" /\ rnow.day = 19789

\* C7: every updateClock invocation reads the clock once, and once it has
\* returned the three targets hold the strings of the one instant it read,
\* even when the clock has moved on meanwhile.
C7_NoTearing ==
    /\ (Running /\ pc \in {"L6", "L11", "L21", "L22"}) => reads = 1
    /\ (active = 0 /\ calls >= 1) => reads = 1 /\ text = Rendered(rnow)

C7_Witness ==
    /\ task = "script" /\ pc = "L28"
    /\ getMinutes(Clock) # getMinutes(rnow)

\* C8: the timeout and the interval are never armed together, setInterval
\* is called at most once and only after the timeout has fired, and at most
\* one updateClock invocation is in progress.
C8_TimersNeverOverlap ==
    /\ ~(timeout.armed /\ interval.armed)
    /\ created <= 1
    /\ interval.armed => fired >= 1
    /\ active <= 1
    /\ active = 1 => Running

C8_Witness == interval.armed /\ ~timeout.armed /\ active = 1

\* C9 as claimed: an absent target never ends the loop: once the script has
\* run, whenever nothing runs a timer is armed.
C9_MissingTargetNonFatal == (task = "none") => (timeout.armed \/ interval.armed)

\* The two minute digits of a time string.
MinuteShown(str) ==
    LET i == CHOOSE j \in 1 .. Len(str) : str[j] = ":"
    IN  << str[i + 1], str[i + 2] >>

\* C10 as claimed: the minute shown is the minute of the clock; it differs
\* only while a task runs or a timer is due within a second.
C10_NeverMinuteStale ==
    (calls >= 1 /\ ~Saturated /\ text["time"] # << >>
        /\ MinuteShown(text["time"]) # Decimal(getMinutes(Clock), 2)) =>
        (Running \/ \E r \in Remaining : r <= 1000)

====
